---- MODULE Spec2Model ----
(***************************************************************************)
(* FlowIDEConnectionWatcher (nuclide-flow-rpc): keeps one FlowIDEConnection *)
(* alive by re-running _makeIDEConnection whenever the connection's        *)
(* onWillDispose listener fires, with a total-wait deadline per cycle and  *)
(* a limit on consecutive unhealthy (short-lived) connections.             *)
(*                                                                         *)
(* JavaScript is single-threaded: every action below is one synchronous    *)
(* run-to-completion block of the class (from an entry point or from the   *)
(* resumption of an await to the next await or return).  The ide-          *)
(* connection callback is caller code that runs inside such a block; what  *)
(* it may do to the Watcher (nothing, or call dispose()) is an input.      *)
(***************************************************************************)
EXTENDS Integers, Sequences, FiniteSets, TLC

\* ---------------------------------------------------------------- constants
IDE_CONNECTION_MAX_WAIT_MS == 20 * 60 * 1000
IDE_CONNECTION_MIN_INTERVAL_MS == 1000
IDE_CONNECTION_HEALTHY_THRESHOLD_MS == 10 * 1000
MAX_UNHEALTHY_CONNECTIONS == 20

\* ------------------------------------------------------------------- bounds
\* How many times the clock may advance in one behaviour.
MaxTicks == 2
\* How many invocations of _makeIDEConnection may be suspended at once.
MaxCalls == 2
\* How many FlowIDEConnection objects are tracked at once.
MaxConns == 3

\* The amounts by which Date.now() may advance between two blocks.
Steps == {200, 800, 1500,
          IDE_CONNECTION_HEALTHY_THRESHOLD_MS, IDE_CONNECTION_MAX_WAIT_MS}

ConnIds == 1..MaxConns
\* What the ide-connection callback does to the Watcher while it runs.
CallbackBehaviours == {"none", "dispose"}
\* What one request to the process factory yields: a process or null.
Procs == {"proc", "null"}

VARIABLES
  now,                                \* Date.now()
  nTicks,                             \* clock advances so far
  isStarted,                          \* this._isStarted
  isDisposed,                         \* this._isDisposed
  consecutiveUnhealthyConnections,    \* this._consecutiveUnhealthyConnections
  currentIDEConnection,               \* this._currentIDEConnection (0 = null)
  currentIDEConnectionSubscription,   \* this._currentIDEConnectionSubscription
  conns,                              \* the FlowIDEConnection objects
  calls,                              \* suspended _makeIDEConnection invocations
  firstPromise,                       \* the promise the first start() returned
  lastCallback,                       \* argument of the latest callback call
  effects                             \* what the latest block did, in order

vars == <<now, nTicks, isStarted, isDisposed, consecutiveUnhealthyConnections,
          currentIDEConnection, currentIDEConnectionSubscription, conns, calls,
          firstPromise, lastCallback, effects>>

\* One entry of effects: an operation, its argument, and a number.
E(op, arg, n) == [op |-> op, arg |-> arg, n |-> n]

FreeConn == [status |-> "free", listener |-> FALSE, connectionStartTime |-> 0]

\* The Watcher and the objects it touches, as one value the blocks transform.
World ==
  [isStarted |-> isStarted,
   isDisposed |-> isDisposed,
   consecutiveUnhealthyConnections |-> consecutiveUnhealthyConnections,
   currentIDEConnection |-> currentIDEConnection,
   currentIDEConnectionSubscription |-> currentIDEConnectionSubscription,
   conns |-> conns,
   calls |-> calls,
   firstPromise |-> firstPromise,
   lastCallback |-> lastCallback,
   effects |-> <<>>]

Did(W, e) == [W EXCEPT !.effects = Append(@, e)]

RemoveAt(s, i) == SubSeq(s, 1, i - 1) \o SubSeq(s, i + 1, Len(s))

\* ------------------------------------------------- _makeIDEConnection, part 1
\* Lines 84-94: the top of the retry loop, up to `await processPromise`.
requestProcess(W, i) ==
  Did([W EXCEPT !.calls[i].pc = "awaitProc",
                !.calls[i].attemptStartTime = now,
                !.calls[i].sleepUntil = 0,
                !.calls[i].requests = @ + 1],
      E("request", "", 0))

\* Lines 79-94: a fresh invocation, up to its first await.  requests counts
\* the evaluations of line 88 by this invocation.
makeIDEConnection(W, first) ==
  LET call == [pc |-> "awaitProc",
               endTimeMS |-> now + IDE_CONNECTION_MAX_WAIT_MS,
               attemptStartTime |-> now,
               sleepUntil |-> 0,
               requests |-> 0,
               first |-> first]
      W1 == [W EXCEPT !.calls = Append(@, call),
                      !.firstPromise = IF first THEN "pending" ELSE @]
  IN  requestProcess(Did(W1, E("cycle", "", 0)), Len(W1.calls))

\* An invocation returns: its promise resolves.
returnFrom(W, i) ==
  [W EXCEPT !.firstPromise = IF W.calls[i].first THEN "resolved" ELSE @,
            !.calls = RemoveAt(@, i)]

\* ------------------------------------------------------------ the callback
RECURSIVE dispose(_)

\* Lines 129 and 131: this._ideConnectionCallback(arg), arg a connection
\* ("conn") or null; b is what the caller's callback does meanwhile.
ideConnectionCallback(W, arg, b) ==
  LET W1 == Did([W EXCEPT !.lastCallback = arg], E("callback", arg, 0))
  IN  IF b = "dispose" THEN dispose(W1) ELSE W1

\* ------------------------------------------------ faulty variants (1)
\* The listener as it would be had it forgotten to report the loss.
onWillDisposeListenerSilent(W, id, b) ==
  LET connectionAliveTime == now - W.conns[id].connectionStartTime
      W2 == Did(Did(Did(W, E("listener", "", id)),
                    E("alive", "", connectionAliveTime)),
                E("before", "", W.consecutiveUnhealthyConnections))
  IN  IF connectionAliveTime < IDE_CONNECTION_HEALTHY_THRESHOLD_MS
      THEN LET W3 == [W2 EXCEPT !.consecutiveUnhealthyConnections = @ + 1]
           IN  IF W3.consecutiveUnhealthyConnections
                    >= MAX_UNHEALTHY_CONNECTIONS
               THEN Did(W3, E("giveUp", "unhealthy", 0))
               ELSE makeIDEConnection(W3, FALSE)
      ELSE makeIDEConnection(
             [W2 EXCEPT !.consecutiveUnhealthyConnections = 0], FALSE)

\* The listener reporting the loss only after the health accounting.
onWillDisposeListenerLateCallback(W, id, b) ==
  LET W0 == Did(W, E("listener", "", id))
      connectionAliveTime == now - W0.conns[id].connectionStartTime
      W2 == Did(Did(W0, E("alive", "", connectionAliveTime)),
                E("before", "", W0.consecutiveUnhealthyConnections))
  IN  IF connectionAliveTime < IDE_CONNECTION_HEALTHY_THRESHOLD_MS
      THEN LET W3 == [W2 EXCEPT !.consecutiveUnhealthyConnections = @ + 1]
           IN  IF W3.consecutiveUnhealthyConnections
                    >= MAX_UNHEALTHY_CONNECTIONS
               THEN Did(W3, E("giveUp", "unhealthy", 0))
               ELSE makeIDEConnection(
                      ideConnectionCallback(W3, "null", b), FALSE)
      ELSE makeIDEConnection(
             ideConnectionCallback(
               [W2 EXCEPT !.consecutiveUnhealthyConnections = 0], "null", b),
             FALSE)

\* The listener with `>` for `>=` in the comparison with the limit.
onWillDisposeListenerOffByOne(W, id, b) ==
  LET W1 == ideConnectionCallback(Did(W, E("listener", "", id)), "null", b)
      connectionAliveTime == now - W1.conns[id].connectionStartTime
      W2 == Did(Did(W1, E("alive", "", connectionAliveTime)),
                E("before", "", W1.consecutiveUnhealthyConnections))
  IN  IF connectionAliveTime < IDE_CONNECTION_HEALTHY_THRESHOLD_MS
      THEN LET W3 == [W2 EXCEPT !.consecutiveUnhealthyConnections = @ + 1]
           IN  IF W3.consecutiveUnhealthyConnections
                    > MAX_UNHEALTHY_CONNECTIONS
               THEN Did(W3, E("giveUp", "unhealthy", 0))
               ELSE makeIDEConnection(W3, FALSE)
      ELSE makeIDEConnection(
             [W2 EXCEPT !.consecutiveUnhealthyConnections = 0], FALSE)

\* The listener with `<=` for `<` in the comparison with the threshold.
onWillDisposeListenerInclusive(W, id, b) ==
  LET W1 == ideConnectionCallback(Did(W, E("listener", "", id)), "null", b)
      connectionAliveTime == now - W1.conns[id].connectionStartTime
      W2 == Did(Did(W1, E("alive", "", connectionAliveTime)),
                E("before", "", W1.consecutiveUnhealthyConnections))
  IN  IF connectionAliveTime <= IDE_CONNECTION_HEALTHY_THRESHOLD_MS
      THEN LET W3 == [W2 EXCEPT !.consecutiveUnhealthyConnections = @ + 1]
           IN  IF W3.consecutiveUnhealthyConnections
                    >= MAX_UNHEALTHY_CONNECTIONS
               THEN Did(W3, E("giveUp", "unhealthy", 0))
               ELSE makeIDEConnection(W3, FALSE)
      ELSE makeIDEConnection(
             [W2 EXCEPT !.consecutiveUnhealthyConnections = 0], FALSE)

\* ------------------------------------------ the onWillDispose listener
\* Lines 130-147: the listener registered on connection id, whose closure
\* holds connectionStartTime.
onWillDisposeListener(W, id, b) ==
  LET W1 == ideConnectionCallback(Did(W, E("listener", "", id)), "null", b)
      connectionAliveTime == now - W1.conns[id].connectionStartTime
      W2 == Did(Did(W1, E("alive", "", connectionAliveTime)),
                E("before", "", W1.consecutiveUnhealthyConnections))
  IN  IF connectionAliveTime < IDE_CONNECTION_HEALTHY_THRESHOLD_MS
      THEN LET W3 == [W2 EXCEPT !.consecutiveUnhealthyConnections = @ + 1]
           IN  IF W3.consecutiveUnhealthyConnections
                    >= MAX_UNHEALTHY_CONNECTIONS
               THEN Did(W3, E("giveUp", "unhealthy", 0))
               ELSE makeIDEConnection(W3, FALSE)
      ELSE makeIDEConnection(
             [W2 EXCEPT !.consecutiveUnhealthyConnections = 0], FALSE)

\* ------------------------------------------------------- FlowIDEConnection
\* The connection ends (the process exits, or dispose() is called on it):
\* its one-shot onWillDispose listener, if still registered, is invoked.
connectionEnds(W, id, b) ==
  LET W1 == Did([W EXCEPT !.conns[id].status = "dead",
                          !.conns[id].listener = FALSE],
                E("ended", "", id))
  IN  IF W.conns[id].listener THEN onWillDisposeListener(W1, id, b) ELSE W1

\* FlowIDEConnection.dispose(): idempotent, ends a live connection.
connectionDispose(W, id) ==
  IF W.conns[id].status = "live" THEN connectionEnds(W, id, "none") ELSE W

\* The IDisposable returned by onWillDispose: removes the listener.
subscriptionDispose(W, id) == [W EXCEPT !.conns[id].listener = FALSE]

\* ------------------------------------------------ faulty variants (2)
\* dispose() without the test of _isDisposed.
disposeUnguarded(W) ==
  LET W0 == Did(W, E("call", "dispose", 0))
      W1 == [W0 EXCEPT !.isDisposed = TRUE]
      sub == W1.currentIDEConnectionSubscription
      W2 == IF sub # 0
            THEN subscriptionDispose(
                   Did(W1, E("subscription.dispose", "", sub)), sub)
            ELSE W1
      conn == W2.currentIDEConnection
  IN  IF conn # 0
      THEN connectionDispose(
             Did(W2, E("connection.dispose", "", conn)), conn)
      ELSE W2

\* dispose() disposing the connection before releasing the subscription.
disposeConnectionFirst(W) ==
  LET W0 == Did(W, E("call", "dispose", 0))
  IN  IF ~W0.isDisposed
      THEN LET W1 == [W0 EXCEPT !.isDisposed = TRUE]
               conn == W1.currentIDEConnection
               W2 == IF conn # 0
                     THEN connectionDispose(
                            Did(W1, E("connection.dispose", "", conn)), conn)
                     ELSE W1
               sub == W2.currentIDEConnectionSubscription
           IN  IF sub # 0
               THEN subscriptionDispose(
                      Did(W2, E("subscription.dispose", "", sub)), sub)
               ELSE W2
      ELSE W0

\* ------------------------------------------------------------------ dispose
\* Lines 162-172.
dispose(W) ==
  LET W0 == Did(W, E("call", "dispose", 0))
  IN  IF ~W0.isDisposed
      THEN LET W1 == [W0 EXCEPT !.isDisposed = TRUE]
               sub == W1.currentIDEConnectionSubscription
               W2 == IF sub # 0
                     THEN subscriptionDispose(
                            Did(W1, E("subscription.dispose", "", sub)), sub)
                     ELSE W1
               conn == W2.currentIDEConnection
           IN  IF conn # 0
               THEN connectionDispose(
                      Did(W2, E("connection.dispose", "", conn)), conn)
               ELSE W2
      ELSE W0

\* ------------------------------------------------ faulty variants (3)
\* start() without the test of _isStarted.
startUnguarded(W) ==
  Did(makeIDEConnection(
        [Did(W, E("call", "start", 0)) EXCEPT !.isStarted = TRUE], TRUE),
      E("return", "cycle", 0))

\* start() starting the first cycle without returning its promise.
startReturnsResolved(W) ==
  LET W0 == Did(W, E("call", "start", 0))
  IN  IF ~W0.isStarted
      THEN Did([makeIDEConnection([W0 EXCEPT !.isStarted = TRUE], FALSE)
                  EXCEPT !.firstPromise = "resolved"],
               E("return", "resolved", 0))
      ELSE Did(W0, E("return", "resolved", 0))

\* -------------------------------------------------------------------- start
\* Lines 70-77.
start(W) ==
  LET W0 == Did(W, E("call", "start", 0))
  IN  IF ~W0.isStarted
      THEN Did(makeIDEConnection([W0 EXCEPT !.isStarted = TRUE], TRUE),
               E("return", "cycle", 0))
      ELSE Did(W0, E("return", "resolved", 0))

\* ------------------------------------------------- _makeIDEConnection, part 2
\* The least connection object not in use.
NewConnId(W) ==
  CHOOSE id \in ConnIds :
    /\ W.conns[id].status = "free"
    /\ \A j \in ConnIds : W.conns[j].status = "free" => id <= j

\* The connection step clearing the unhealthy count on success.
connectProcessResets(W, i, b) ==
  LET id == NewConnId(W)
      W1 == Did([W EXCEPT !.conns[id] =
                   [status |-> "live", listener |-> FALSE,
                    connectionStartTime |-> now],
                          !.consecutiveUnhealthyConnections = 0],
                E("factory", "", id))
      W2 == ideConnectionCallback(W1, "conn", b)
      W3 == Did([W2 EXCEPT !.conns[id].listener = TRUE,
                           !.currentIDEConnectionSubscription = id],
                E("onWillDispose", "", id))
      W4 == [W3 EXCEPT !.currentIDEConnection = id]
  IN  returnFrom(W4, i)

\* Lines 127-150: wrap the process, hand the connection to the callback,
\* register the listener, store the connection, return.
connectProcess(W, i, b) ==
  LET id == NewConnId(W)
      W1 == Did([W EXCEPT !.conns[id] =
                   [status |-> "live", listener |-> FALSE,
                    connectionStartTime |-> now]],
                E("factory", "", id))
      W2 == ideConnectionCallback(W1, "conn", b)
      W3 == Did([W2 EXCEPT !.conns[id].listener = TRUE,
                           !.currentIDEConnectionSubscription = id],
                E("onWillDispose", "", id))
      W4 == [W3 EXCEPT !.currentIDEConnection = id]
  IN  returnFrom(W4, i)

\* _makeIDEConnection never consulting endTimeMS.
afterProcessNoDeadline(W, i, proc, b) ==
  LET W0 == Did(W, E("process", proc, 0))
      attemptWallTime == now - W.calls[i].attemptStartTime
      additionalWaitTime == IDE_CONNECTION_MIN_INTERVAL_MS - attemptWallTime
  IN  IF W0.isDisposed
      THEN returnFrom(IF proc # "null" THEN Did(W0, E("kill", "", 0))
                                       ELSE W0, i)
      ELSE IF proc # "null"
           THEN connectProcess(W0, i, b)
           ELSE IF additionalWaitTime > 0
                THEN Did([W0 EXCEPT !.calls[i].pc = "sleep",
                                    !.calls[i].sleepUntil =
                                       now + additionalWaitTime],
                         E("sleep", "", additionalWaitTime))
                ELSE requestProcess(W0, i)

\* _makeIDEConnection without the test of _isDisposed after the await.
afterProcessNoDisposedTest(W, i, proc, b) ==
  LET W0 == Did(Did(W, E("process", proc, 0)),
                E("deadline", "", W.calls[i].endTimeMS))
      attemptWallTime == now - W.calls[i].attemptStartTime
      additionalWaitTime == IDE_CONNECTION_MIN_INTERVAL_MS - attemptWallTime
  IN  IF proc # "null" \/ now > W.calls[i].endTimeMS
      THEN IF proc = "null"
           THEN returnFrom(Did(W0, E("giveUp", "timeout", 0)), i)
           ELSE connectProcess(W0, i, b)
      ELSE IF additionalWaitTime > 0
           THEN Did([W0 EXCEPT !.calls[i].pc = "sleep",
                               !.calls[i].sleepUntil =
                                  now + additionalWaitTime],
                    E("sleep", "", additionalWaitTime))
           ELSE requestProcess(W0, i)

\* _makeIDEConnection reporting the give-up on timeout to the callback.
afterProcessNotifiesTimeout(W, i, proc, b) ==
  LET W0 == Did(Did(W, E("process", proc, 0)),
                E("deadline", "", W.calls[i].endTimeMS))
      attemptWallTime == now - W.calls[i].attemptStartTime
      additionalWaitTime == IDE_CONNECTION_MIN_INTERVAL_MS - attemptWallTime
  IN  IF W0.isDisposed
      THEN returnFrom(IF proc # "null" THEN Did(W0, E("kill", "", 0))
                                       ELSE W0, i)
      ELSE IF proc # "null" \/ now > W.calls[i].endTimeMS
           THEN IF proc = "null"
                THEN returnFrom(
                       ideConnectionCallback(
                         Did(W0, E("giveUp", "timeout", 0)), "null", "none"),
                       i)
                ELSE connectProcess(W0, i, b)
           ELSE IF additionalWaitTime > 0
                THEN Did([W0 EXCEPT !.calls[i].pc = "sleep",
                                    !.calls[i].sleepUntil =
                                       now + additionalWaitTime],
                         E("sleep", "", additionalWaitTime))
                ELSE requestProcess(W0, i)

\* _makeIDEConnection with `>=` for `>` in the comparison with endTimeMS.
afterProcessDeadlineInclusive(W, i, proc, b) ==
  LET W0 == Did(Did(W, E("process", proc, 0)),
                E("deadline", "", W.calls[i].endTimeMS))
      attemptWallTime == now - W.calls[i].attemptStartTime
      additionalWaitTime == IDE_CONNECTION_MIN_INTERVAL_MS - attemptWallTime
  IN  IF W0.isDisposed
      THEN returnFrom(IF proc # "null" THEN Did(W0, E("kill", "", 0))
                                       ELSE W0, i)
      ELSE IF proc # "null" \/ now >= W.calls[i].endTimeMS
           THEN IF proc = "null"
                THEN returnFrom(Did(W0, E("giveUp", "timeout", 0)), i)
                ELSE connectProcess(W0, i, b)
           ELSE IF additionalWaitTime > 0
                THEN Did([W0 EXCEPT !.calls[i].pc = "sleep",
                                    !.calls[i].sleepUntil =
                                       now + additionalWaitTime],
                         E("sleep", "", additionalWaitTime))
                ELSE requestProcess(W0, i)

\* _makeIDEConnection testing the deadline before looking at the process.
afterProcessDeadlineFirst(W, i, proc, b) ==
  LET W0 == Did(Did(W, E("process", proc, 0)),
                E("deadline", "", W.calls[i].endTimeMS))
      attemptWallTime == now - W.calls[i].attemptStartTime
      additionalWaitTime == IDE_CONNECTION_MIN_INTERVAL_MS - attemptWallTime
  IN  IF W0.isDisposed
      THEN returnFrom(IF proc # "null" THEN Did(W0, E("kill", "", 0))
                                       ELSE W0, i)
      ELSE IF now > W.calls[i].endTimeMS
           THEN returnFrom(Did(W0, E("giveUp", "timeout", 0)), i)
           ELSE IF proc # "null"
                THEN connectProcess(W0, i, b)
                ELSE IF additionalWaitTime > 0
                     THEN Did([W0 EXCEPT !.calls[i].pc = "sleep",
                                         !.calls[i].sleepUntil =
                                            now + additionalWaitTime],
                              E("sleep", "", additionalWaitTime))
                     ELSE requestProcess(W0, i)

\* _makeIDEConnection always sleeping the whole minimum interval.
afterProcessFixedDelay(W, i, proc, b) ==
  LET W0 == Did(Did(W, E("process", proc, 0)),
                E("deadline", "", W.calls[i].endTimeMS))
      additionalWaitTime == IDE_CONNECTION_MIN_INTERVAL_MS
  IN  IF W0.isDisposed
      THEN returnFrom(IF proc # "null" THEN Did(W0, E("kill", "", 0))
                                       ELSE W0, i)
      ELSE IF proc # "null" \/ now > W.calls[i].endTimeMS
           THEN IF proc = "null"
                THEN returnFrom(Did(W0, E("giveUp", "timeout", 0)), i)
                ELSE connectProcess(W0, i, b)
           ELSE Did([W0 EXCEPT !.calls[i].pc = "sleep",
                               !.calls[i].sleepUntil =
                                  now + additionalWaitTime],
                    E("sleep", "", additionalWaitTime))

\* _makeIDEConnection giving up one minimum interval after endTimeMS.
afterProcessLateDeadline(W, i, proc, b) ==
  LET W0 == Did(Did(W, E("process", proc, 0)),
                E("deadline", "", W.calls[i].endTimeMS))
      additionalWaitTime ==
        IDE_CONNECTION_MIN_INTERVAL_MS - (now - W.calls[i].attemptStartTime)
  IN  IF W0.isDisposed
      THEN returnFrom(IF proc # "null" THEN Did(W0, E("kill", "", 0))
                                       ELSE W0, i)
      ELSE IF \/ proc # "null"
              \/ now > W.calls[i].endTimeMS + IDE_CONNECTION_MIN_INTERVAL_MS
           THEN IF proc = "null"
                THEN returnFrom(Did(W0, E("giveUp", "timeout", 0)), i)
                ELSE connectProcess(W0, i, b)
           ELSE IF additionalWaitTime > 0
                THEN Did([W0 EXCEPT !.calls[i].pc = "sleep",
                                    !.calls[i].sleepUntil =
                                       now + additionalWaitTime],
                         E("sleep", "", additionalWaitTime))
                ELSE requestProcess(W0, i)

\* Lines 94-126: invocation i resumes from `await processPromise` with proc.
afterProcess(W, i, proc, b) ==
  LET W0 == Did(Did(W, E("process", proc, 0)),
                E("deadline", "", W.calls[i].endTimeMS))
      endTimeMS == W.calls[i].endTimeMS
      attemptStartTime == W.calls[i].attemptStartTime
      attemptEndTime == now
      attemptWallTime == attemptEndTime - attemptStartTime
      additionalWaitTime == IDE_CONNECTION_MIN_INTERVAL_MS - attemptWallTime
  IN  IF W0.isDisposed
      THEN returnFrom(IF proc # "null" THEN Did(W0, E("kill", "", 0))
                                       ELSE W0, i)
      ELSE IF proc # "null" \/ attemptEndTime > endTimeMS
           THEN IF proc = "null"
                THEN returnFrom(Did(W0, E("giveUp", "timeout", 0)), i)
                ELSE connectProcess(W0, i, b)
           ELSE IF additionalWaitTime > 0
                THEN Did([W0 EXCEPT !.calls[i].pc = "sleep",
                                    !.calls[i].sleepUntil =
                                       now + additionalWaitTime],
                         E("sleep", "", additionalWaitTime))
                ELSE requestProcess(W0, i)

\* Lines 117-118 and 83-94: invocation i resumes from `await this._sleep(..)`.
afterSleep(W, i) == requestProcess(Did(W, E("wake", "", 0)), i)

\* ------------------------------------------------------------------ actions
\* A connection object that has ended and that the Watcher no longer holds
\* is garbage.
Collect(W) ==
  [W EXCEPT !.conns =
     [id \in ConnIds |->
        IF /\ W.conns[id].status = "dead"
           /\ id # W.currentIDEConnection
           /\ id # W.currentIDEConnectionSubscription
        THEN FreeConn ELSE W.conns[id]]]

Becomes(W0) ==
  LET W == Collect(W0)
  IN  /\ Len(W.calls) <= MaxCalls
      /\ isStarted' = W.isStarted
      /\ isDisposed' = W.isDisposed
      /\ consecutiveUnhealthyConnections' = W.consecutiveUnhealthyConnections
      /\ currentIDEConnection' = W.currentIDEConnection
      /\ currentIDEConnectionSubscription' = W.currentIDEConnectionSubscription
      /\ conns' = W.conns
      /\ calls' = W.calls
      /\ firstPromise' = W.firstPromise
      /\ lastCallback' = W.lastCallback
      /\ effects' = W.effects
      /\ UNCHANGED <<now, nTicks>>

Init ==
  /\ now = 0
  /\ nTicks = 0
  /\ isStarted = FALSE
  /\ isDisposed = FALSE
  /\ consecutiveUnhealthyConnections = 0
  /\ currentIDEConnection = 0
  /\ currentIDEConnectionSubscription = 0
  /\ conns = [id \in ConnIds |-> FreeConn]
  /\ calls = <<>>
  /\ firstPromise = "none"
  /\ lastCallback = "none"
  /\ effects = <<>>

\* The caller calls start().
Start == \E W \in {start(World)} : Becomes(W)

\* The caller calls dispose().
Dispose == \E W \in {dispose(World)} : Becomes(W)

\* The process factory answers the pending request of invocation i with
\* proc; b is what the callback does if the block reaches it.
ProcessAnswers(i, proc, b) ==
  /\ calls[i].pc = "awaitProc"
  /\ \E id \in ConnIds : conns[id].status = "free"
  /\ Becomes(afterProcess(World, i, proc, b))

\* A request yields a process.
ProcessArrives ==
  \E i \in 1..Len(calls), b \in CallbackBehaviours :
    ProcessAnswers(i, "proc", b)

\* A request yields null (the spawn failed).
ProcessAbsent ==
  \E i \in 1..Len(calls) : ProcessAnswers(i, "null", "none")

\* The delay of invocation i has elapsed.
SleepEnds ==
  \E i \in 1..Len(calls) :
    /\ calls[i].pc = "sleep"
    /\ now >= calls[i].sleepUntil
    /\ Becomes(afterSleep(World, i))

\* A live connection ends on its own (the Flow process exits).
ConnectionEnds ==
  \E id \in ConnIds, b \in CallbackBehaviours :
    /\ conns[id].status = "live"
    /\ Becomes(connectionEnds(World, id, b))

\* Time passes.
Tick ==
  \E d \in Steps :
    /\ nTicks < MaxTicks
    /\ now' = now + d
    /\ nTicks' = nTicks + 1
    /\ effects' = <<>>
    /\ UNCHANGED <<isStarted, isDisposed, consecutiveUnhealthyConnections,
                   currentIDEConnection, currentIDEConnectionSubscription,
                   conns, calls, firstPromise, lastCallback>>

\* A long time passes while invocation i waits: the clock reaches the
\* instant by which its deadline and any delay it is in have passed.
Elapse ==
  \E i \in 1..Len(calls) :
    LET horizon == calls[i].endTimeMS + IDE_CONNECTION_MIN_INTERVAL_MS
    IN  /\ now < horizon
        /\ now' = horizon
        /\ effects' = <<>>
        /\ UNCHANGED <<nTicks, isStarted, isDisposed,
                       consecutiveUnhealthyConnections, currentIDEConnection,
                       currentIDEConnectionSubscription, conns, calls,
                       firstPromise, lastCallback>>

\* Half a minimum interval passes while invocation i waits: for the answer
\* to its request, if less than an interval has gone by since the request,
\* or for the end of its delay.
HalfInterval ==
  \E i \in 1..Len(calls) :
    /\ \/ calls[i].pc = "sleep" /\ now < calls[i].sleepUntil
       \/ /\ calls[i].pc = "awaitProc"
          /\ now - calls[i].attemptStartTime < IDE_CONNECTION_MIN_INTERVAL_MS
    /\ now' = now + IDE_CONNECTION_MIN_INTERVAL_MS \div 2
    /\ effects' = <<>>
    /\ UNCHANGED <<nTicks, isStarted, isDisposed,
                   consecutiveUnhealthyConnections, currentIDEConnection,
                   currentIDEConnectionSubscription, conns, calls,
                   firstPromise, lastCallback>>

Next ==
  \/ Start
  \/ Dispose
  \/ ProcessArrives
  \/ ProcessAbsent
  \/ SleepEnds
  \/ ConnectionEnds
  \/ Tick

Spec == Init /\ [][Next]_vars

\* The process factory only ever yields null, every request is answered,
\* every delay ends, time goes on, and dispose() is not called.
NextAbsent ==
  \/ Start
  \/ ProcessAbsent
  \/ SleepEnds
  \/ Tick
  \/ Elapse

AbsentSpec ==
  /\ Init
  /\ [][NextAbsent]_vars
  /\ WF_vars(ProcessAbsent)
  /\ WF_vars(SleepEnds)
  /\ WF_vars(Elapse)

\* One acquisition cycle followed to its end: every request is answered,
\* with a process or with null, at once, half an interval or one interval
\* later, and every delay ends when it is due.
NextRetry ==
  \/ Start
  \/ ProcessArrives
  \/ ProcessAbsent
  \/ SleepEnds
  \/ HalfInterval

RetrySpec == Init /\ [][NextRetry]_vars

\* ============================================================== properties
\* Reading the record of a block.
Has(ef, op, arg) == \E k \in 1..Len(ef) : ef[k].op = op /\ ef[k].arg = arg
HasOp(ef, op) == \E k \in 1..Len(ef) : ef[k].op = op
Count(ef, op) == Cardinality({k \in 1..Len(ef) : ef[k].op = op})
IsCallback(e) == e.op = "callback"
\* The arguments of the callback invocations of a block, in order.
CallbackArgs(ef) ==
  LET cbs == SelectSeq(ef, IsCallback)
  IN  [k \in 1..Len(cbs) |-> cbs[k].arg]
\* A block that is a direct call of op by the caller.
IsCall(ef, op) == ef # <<>> /\ ef[1] = E("call", op, 0)
LiveConns == {id \in ConnIds : conns[id].status = "live"}

\* A connection first, then absence, then a connection, and so on.
Alternates(s) ==
  \A k \in 1..(Len(s) - 1) :
    \/ s[k] \in {"none", "null"} /\ s[k + 1] = "conn"
    \/ s[k] = "conn" /\ s[k + 1] = "null"

\* C1: the callback invocations alternate between a connection and null,
\* beginning with a connection, and a connection is passed only by a block
\* that received a process from the process factory.
C1_CallbackAlternates ==
  [][LET args == CallbackArgs(effects')
     IN  args # <<>> =>
           /\ Alternates(<<lastCallback>> \o args)
           /\ Has(effects', "callback", "conn") =>
                /\ effects'[1] = E("process", "proc", 0)
                /\ Count(effects', "callback") = 1]_vars

\* A connection is handed over after an earlier one was reported gone.
C1_Witness ==
  /\ Has(effects, "callback", "conn")
  /\ consecutiveUnhealthyConnections >= 1

\* C2: once dispose() has been called the callback is never invoked again.
C2_NoCallbackOnceDisposed ==
  [][isDisposed => ~HasOp(effects', "callback")]_vars

\* C3: at most one invocation of _makeIDEConnection is running and at most
\* one connection is live, never both, and an invocation begins only in the
\* first start() or in the listener of a connection that ended.
C3_OneCycleOneConnection ==
  /\ Len(calls) <= 1
  /\ Cardinality(LiveConns) <= 1
  /\ ~(calls # <<>> /\ LiveConns # {})
  /\ Count(effects, "cycle") <= 1
  /\ HasOp(effects, "cycle") =>
       \/ effects[1] = E("call", "start", 0) /\ Count(effects, "call") = 1
       \/ effects[1].op = "ended" /\ effects[2].op = "listener"

\* A new cycle was begun by the listener of the connection that ended.
C3_Witness ==
  /\ HasOp(effects, "listener")
  /\ HasOp(effects, "cycle")
  /\ Len(calls) = 1

\* The listener ran for a connection that lived less than the threshold.
ShortLived(ef) ==
  \E k \in 1..Len(ef) :
    /\ ef[k].op = "alive"
    /\ ef[k].n < IDE_CONNECTION_HEALTHY_THRESHOLD_MS

\* C4: the count of consecutive unhealthy connections never exceeds
\* MAX_UNHEALTHY_CONNECTIONS; the short-lived termination that brings it to
\* the limit starts no cycle and one that leaves it below starts one; once
\* at the limit no request is issued again.
C4_CircuitBreaker ==
  /\ [](consecutiveUnhealthyConnections <= MAX_UNHEALTHY_CONNECTIONS)
  /\ [][consecutiveUnhealthyConnections >= MAX_UNHEALTHY_CONNECTIONS
          => /\ ~HasOp(effects', "request")
             /\ calls' = <<>>]_vars
  /\ [][ShortLived(effects') =>
          IF consecutiveUnhealthyConnections' >= MAX_UNHEALTHY_CONNECTIONS
          THEN ~HasOp(effects', "cycle") /\ ~HasOp(effects', "request")
          ELSE HasOp(effects', "cycle") /\ HasOp(effects', "request")]_vars

\* The twentieth short-lived connection in a row has just ended.
C4_Witness ==
  /\ consecutiveUnhealthyConnections = MAX_UNHEALTHY_CONNECTIONS
  /\ Has(effects, "giveUp", "unhealthy")
  /\ ShortLived(effects)

\* C5: when the listener of a connection runs, an alive time (now minus the
\* recorded start time) at or above the threshold sets the count to 0 and
\* an alive time below it, after a count of 0, leaves the count at 1.
C5_StreakReset ==
  [][\A id \in ConnIds :
       (/\ conns[id].status = "live"
        /\ \E k \in 1..Len(effects') : effects'[k] = E("listener", "", id)) =>
         LET alive == now - conns[id].connectionStartTime
         IN  /\ alive >= IDE_CONNECTION_HEALTHY_THRESHOLD_MS
                  => consecutiveUnhealthyConnections' = 0
             /\ (/\ alive < IDE_CONNECTION_HEALTHY_THRESHOLD_MS
                 /\ consecutiveUnhealthyConnections = 0)
                  => consecutiveUnhealthyConnections' = 1]_vars

\* A connection that lived exactly the threshold has reset a streak.
C5_Witness ==
  /\ Has(effects, "alive", "")
  /\ \E k \in 1..Len(effects) :
       /\ effects[k].op = "alive"
       /\ effects[k].n = IDE_CONNECTION_HEALTHY_THRESHOLD_MS
  /\ \E k \in 1..Len(effects) : effects[k].op = "before" /\ effects[k].n >= 1
  /\ consecutiveUnhealthyConnections = 0

\* C6: when every request yields null, the promise of the first start()
\* resolves, by the give-up on timeout, with nothing left running, and the
\* callback is never invoked.
C6_AbsentGivesUp ==
  /\ (firstPromise = "pending") ~> (firstPromise = "resolved")
  /\ [](/\ lastCallback = "none"
        /\ ~HasOp(effects, "callback")
        /\ ~HasOp(effects, "factory"))
  /\ [](firstPromise = "resolved" =>
          /\ calls = <<>>
          /\ LiveConns = {}
          /\ currentIDEConnection = 0)
  /\ [][(firstPromise = "pending" /\ firstPromise' = "resolved")
          => Has(effects', "giveUp", "timeout")]_vars

\* The first cycle has given up on timeout.
C6_Witness ==
  /\ firstPromise = "resolved"
  /\ Has(effects, "giveUp", "timeout")
  /\ lastCallback = "none"

\* C7: start() begins a cycle only when called first; called again it issues
\* no request, changes nothing and returns a resolved promise.
C7_StartIdempotent ==
  [][IsCall(effects', "start") =>
       IF isStarted
       THEN /\ effects' = <<E("call", "start", 0), E("return", "resolved", 0)>>
            /\ UNCHANGED <<isStarted, isDisposed,
                           consecutiveUnhealthyConnections,
                           currentIDEConnection,
                           currentIDEConnectionSubscription, conns, calls,
                           firstPromise, lastCallback>>
       ELSE /\ isStarted'
            /\ Count(effects', "cycle") = 1
            /\ Count(effects', "request") = 1]_vars

\* start() was called again while the first cycle waits for a process.
C7_Witness ==
  /\ effects = <<E("call", "start", 0), E("return", "resolved", 0)>>
  /\ Len(calls) = 1
  /\ firstPromise = "pending"

\* C8: the subscription and the connection are released only by the block
\* in which isDisposed becomes true, once each; a later dispose() releases
\* nothing and changes nothing.
C8_DisposeIdempotent ==
  [][/\ (HasOp(effects', "subscription.dispose")
           \/ HasOp(effects', "connection.dispose"))
          => /\ ~isDisposed
             /\ isDisposed'
             /\ Count(effects', "subscription.dispose") <= 1
             /\ Count(effects', "connection.dispose") <= 1
     /\ (IsCall(effects', "dispose") /\ isDisposed)
          => /\ effects' = <<E("call", "dispose", 0)>>
             /\ UNCHANGED <<isStarted, isDisposed,
                            consecutiveUnhealthyConnections,
                            currentIDEConnection,
                            currentIDEConnectionSubscription, conns, calls,
                            firstPromise, lastCallback>>]_vars

\* dispose() was called again after a teardown that released a connection.
C8_Witness ==
  /\ effects = <<E("call", "dispose", 0)>>
  /\ isDisposed
  /\ currentIDEConnection # 0
  /\ currentIDEConnectionSubscription # 0

\* C9: once dispose() has been called no request is issued to the process
\* factory.
C9_NoRequestOnceDisposed ==
  [][isDisposed => ~HasOp(effects', "request")]_vars

\* Position of the first entry of ef with operation op (0 if none).
First(ef, op) ==
  IF HasOp(ef, op)
  THEN CHOOSE k \in 1..Len(ef) :
         ef[k].op = op /\ \A j \in 1..(k - 1) : ef[j].op # op
  ELSE 0

\* C10: dispose() called while the current connection is live releases the
\* subscription, then disposes the connection, which ends without the
\* callback being invoked, the count changing or a cycle being started.
C10_DisposeLiveConnection ==
  [][(/\ IsCall(effects', "dispose")
      /\ ~isDisposed
      /\ currentIDEConnection # 0
      /\ conns[currentIDEConnection].status = "live") =>
       /\ isDisposed'
       /\ conns'[currentIDEConnection].status = "dead"
       /\ First(effects', "subscription.dispose") > 0
       /\ First(effects', "subscription.dispose")
            < First(effects', "connection.dispose")
       /\ First(effects', "connection.dispose") < First(effects', "ended")
       /\ ~HasOp(effects', "listener")
       /\ ~HasOp(effects', "callback")
       /\ ~HasOp(effects', "cycle")
       /\ ~HasOp(effects', "request")
       /\ UNCHANGED <<consecutiveUnhealthyConnections, calls, lastCallback>>]_vars

\* dispose() has just ended the live connection.
C10_Witness ==
  /\ IsCall(effects, "dispose")
  /\ HasOp(effects, "connection.dispose")
  /\ HasOp(effects, "ended")
  /\ isDisposed

\* A block that resumes an invocation from `await processPromise`.
IsAnswer(ef) == ef # <<>> /\ ef[1].op = "process"

\* C11: when a request answers after dispose() was called, a process is
\* killed and never wrapped, null is dropped, the invocation returns without
\* retry, delay or callback, and the promise of a first invocation resolves.
C11_DisposalRace ==
  [][(isDisposed /\ IsAnswer(effects')) =>
       /\ HasOp(effects', "kill") <=> effects'[1].arg = "proc"
       /\ Count(effects', "kill") <= 1
       /\ ~HasOp(effects', "factory")
       /\ ~HasOp(effects', "callback")
       /\ ~HasOp(effects', "onWillDispose")
       /\ ~HasOp(effects', "request")
       /\ ~HasOp(effects', "sleep")
       /\ ~HasOp(effects', "cycle")
       /\ Len(calls') = Len(calls) - 1
       /\ (Len(calls) = 1 /\ calls[1].first) => firstPromise' = "resolved"
       /\ UNCHANGED <<isStarted, isDisposed, consecutiveUnhealthyConnections,
                      currentIDEConnection, currentIDEConnectionSubscription,
                      conns, lastCallback>>]_vars

\* The process of the first cycle arrived after dispose() and was killed.
C11_Witness ==
  /\ isDisposed
  /\ IsAnswer(effects)
  /\ HasOp(effects, "kill")
  /\ firstPromise = "resolved"
  /\ lastCallback = "none"

\* C12: the promise of the first start() is pending from that call on and
\* resolves only in the block that ends the first invocation: after the
\* callback got the first connection and the listener was registered, or
\* on the give-up on timeout, or with the Watcher disposed; it is never
\* resolved while the first invocation is suspended, and stays resolved.
C12_FirstPromise ==
  /\ [](firstPromise = "resolved" =>
          \A i \in 1..Len(calls) : ~calls[i].first)
  /\ [](firstPromise = "pending" =>
          \E i \in 1..Len(calls) : calls[i].first)
  /\ [][/\ (IsCall(effects', "start") /\ ~isStarted)
             => firstPromise' = "pending"
        /\ firstPromise = "resolved" => firstPromise' = "resolved"
        /\ (firstPromise # "resolved" /\ firstPromise' = "resolved") =>
             /\ firstPromise = "pending"
             /\ IsAnswer(effects')
             /\ ~HasOp(effects', "request")
             /\ ~HasOp(effects', "sleep")
             /\ \/ isDisposed
                \/ Has(effects', "giveUp", "timeout")
                \/ /\ First(effects', "factory") > 0
                   /\ First(effects', "factory") < First(effects', "callback")
                   /\ First(effects', "callback")
                        < First(effects', "onWillDispose")
                   /\ Has(effects', "callback", "conn")
                   /\ currentIDEConnectionSubscription' # 0
                   /\ currentIDEConnectionSubscription' = currentIDEConnection'
                   /\ conns'[currentIDEConnection'].listener]_vars

\* The first cycle has just delivered the first connection.
C12_Witness ==
  /\ firstPromise = "resolved"
  /\ IsAnswer(effects)
  /\ Has(effects, "callback", "conn")
  /\ now = 0
  /\ consecutiveUnhealthyConnections = 0
  /\ ~isDisposed

\* Started, with no invocation suspended and no connection live.
Idle == isStarted /\ calls = <<>> /\ LiveConns = {}

\* C13: the block that gives up on timeout calls neither the factory nor
\* the callback, leaves the count alone and leaves the Watcher idle; an idle
\* Watcher stays idle, issues no request and invokes no callback.
C13_TimeoutTerminal ==
  /\ [][Has(effects', "giveUp", "timeout") =>
          /\ IsAnswer(effects') /\ effects'[1].arg = "null"
          /\ ~HasOp(effects', "factory")
          /\ ~HasOp(effects', "callback")
          /\ ~HasOp(effects', "request")
          /\ ~HasOp(effects', "cycle")
          /\ UNCHANGED <<consecutiveUnhealthyConnections, lastCallback>>
          /\ Idle']_vars
  /\ [][Idle =>
          /\ Idle'
          /\ ~HasOp(effects', "request")
          /\ ~HasOp(effects', "cycle")
          /\ ~HasOp(effects', "factory")
          /\ ~HasOp(effects', "callback")]_vars

\* A cycle begun after a short-lived connection has given up on timeout.
C13_Witness ==
  /\ Has(effects, "giveUp", "timeout")
  /\ consecutiveUnhealthyConnections >= 1
  /\ Idle

\* A block that resumes an invocation with null, the Watcher not disposed.
IsAbsentAnswer(ef) == IsAnswer(ef) /\ ef[1].arg = "null" /\ ~isDisposed

\* C14: an invocation's deadline is the time it began plus
\* IDE_CONNECTION_MAX_WAIT_MS and never changes while it runs; a null answer
\* makes it give up exactly when the time is beyond the deadline, and
\* otherwise it asks again, at once or after a delay.
C14_Deadline ==
  [][/\ HasOp(effects', "cycle") =>
          calls'[Len(calls')].endTimeMS = now + IDE_CONNECTION_MAX_WAIT_MS
     /\ (Len(calls) = 1 /\ Len(calls') = 1 /\ ~HasOp(effects', "cycle")) =>
          calls'[1].endTimeMS = calls[1].endTimeMS
     /\ (IsAbsentAnswer(effects') /\ Len(calls) = 1) =>
          IF now > calls[1].endTimeMS
          THEN Has(effects', "giveUp", "timeout") /\ calls' = <<>>
          ELSE /\ ~HasOp(effects', "giveUp")
               /\ Len(calls') = 1
               /\ \/ HasOp(effects', "request") /\ calls'[1].pc = "awaitProc"
                  \/ HasOp(effects', "sleep") /\ calls'[1].pc = "sleep"
     /\ Has(effects', "giveUp", "timeout") =>
          /\ IsAbsentAnswer(effects')
          /\ Len(calls) = 1
          /\ now > calls[1].endTimeMS
     /\ (effects' # <<>> /\ effects'[1].op = "wake") =>
          HasOp(effects', "request")]_vars

\* A null answer exactly at the deadline was followed by a new request.
C14_Witness ==
  /\ IsAnswer(effects)
  /\ effects[1].arg = "null"
  /\ HasOp(effects, "request")
  /\ Len(calls) = 1
  /\ calls[1].endTimeMS = now

\* The block resumed an invocation whose deadline had passed.
PastDeadline(ef) ==
  \E k \in 1..Len(ef) : ef[k].op = "deadline" /\ ef[k].n < now

\* C15: a process that arrives while the Watcher is not disposed is always
\* wrapped by the factory and handed to the callback, whatever the time.
C15_ProcessWins ==
  [][(IsAnswer(effects') /\ effects'[1].arg = "proc" /\ ~isDisposed) =>
       /\ Count(effects', "factory") = 1
       /\ Has(effects', "callback", "conn")
       /\ First(effects', "factory") < First(effects', "callback")
       /\ HasOp(effects', "onWillDispose")
       /\ ~HasOp(effects', "giveUp")
       /\ ~HasOp(effects', "kill")
       /\ currentIDEConnection' # 0
       /\ conns[currentIDEConnection'].status = "free"
       /\ conns'[currentIDEConnection'].connectionStartTime = now
       /\ Len(calls') = Len(calls) - 1]_vars

\* A process that arrived after the deadline was handed to the callback.
C15_Witness ==
  /\ IsAnswer(effects)
  /\ PastDeadline(effects)
  /\ Has(effects, "callback", "conn")
  /\ currentIDEConnection # 0
  /\ conns[currentIDEConnection].status = "live"

\* C16: after a null answer within the deadline the invocation sleeps
\* IDE_CONNECTION_MIN_INTERVAL_MS minus the duration of the attempt when
\* that is positive and asks again at once otherwise; two successive
\* requests of an invocation begin at least the minimum interval apart.
C16_Throttling ==
  [][/\ (/\ IsAbsentAnswer(effects')
         /\ Len(calls) = 1
         /\ now <= calls[1].endTimeMS) =>
          LET elapsed == now - calls[1].attemptStartTime
              wait == IDE_CONNECTION_MIN_INTERVAL_MS - elapsed
          IN  IF wait > 0
              THEN /\ ~HasOp(effects', "request")
                   /\ \E k \in 1..Len(effects') :
                        effects'[k] = E("sleep", "", wait)
                   /\ Count(effects', "sleep") = 1
                   /\ calls'[1].pc = "sleep"
                   /\ calls'[1].sleepUntil = now + wait
              ELSE /\ ~HasOp(effects', "sleep")
                   /\ Count(effects', "request") = 1
                   /\ calls'[1].pc = "awaitProc"
                   /\ calls'[1].attemptStartTime = now
     /\ (/\ HasOp(effects', "request")
         /\ ~HasOp(effects', "cycle")
         /\ Len(calls) = 1
         /\ Len(calls') = 1) =>
          calls'[1].attemptStartTime - calls[1].attemptStartTime
            >= IDE_CONNECTION_MIN_INTERVAL_MS]_vars

\* An attempt that took 200 ms is followed by a sleep of 800 ms.
C16_Witness ==
  /\ IsAnswer(effects)
  /\ Len(calls) = 1
  /\ calls[1].pc = "sleep"
  /\ now - calls[1].attemptStartTime = 200
  /\ \E k \in 1..Len(effects) : effects[k] = E("sleep", "", 800)

\* The steps of the listener that follow the report of the loss.
AfterReport == {"alive", "before", "giveUp", "cycle", "request"}

\* C17: the listener of an ended connection first invokes the callback with
\* null, once, then does the health accounting, and then begins exactly one
\* new invocation with its request, or none when the limit was reached.
C17_ListenerOrder ==
  [][HasOp(effects', "listener") =>
       LET l == First(effects', "listener")
       IN  /\ Count(effects', "listener") = 1
           /\ Len(effects') > l
           /\ effects'[l + 1] = E("callback", "null", 0)
           /\ Count(effects', "callback") = 1
           /\ HasOp(effects', "alive")
           /\ \A k \in 1..Len(effects') :
                effects'[k].op \in AfterReport => k > l + 1
           /\ IF /\ ShortLived(effects')
                 /\ consecutiveUnhealthyConnections'
                      >= MAX_UNHEALTHY_CONNECTIONS
              THEN /\ Count(effects', "cycle") = 0
                   /\ Count(effects', "request") = 0
                   /\ calls' = calls
              ELSE /\ Count(effects', "cycle") = 1
                   /\ Count(effects', "request") = 1
                   /\ Len(calls') = Len(calls) + 1
                   /\ calls'[Len(calls')].pc = "awaitProc"]_vars

\* A connection that lived long enough ended and a new request was issued.
C17_Witness ==
  /\ HasOp(effects, "listener")
  /\ Has(effects, "callback", "null")
  /\ HasOp(effects, "request")
  /\ ~ShortLived(effects)
  /\ ~isDisposed
  /\ Len(calls) = 1

\* C18: the unhealthy count is never negative and changes only in a block
\* that runs the listener of an ended connection: by +1 when that
\* connection lived less than the threshold, to 0 otherwise.
C18_CountFrame ==
  /\ [](consecutiveUnhealthyConnections >= 0)
  /\ [][~HasOp(effects', "listener")
          => UNCHANGED consecutiveUnhealthyConnections]_vars
  /\ [][\A id \in ConnIds :
          (\E k \in 1..Len(effects') : effects'[k] = E("listener", "", id)) =>
            /\ conns[id].status = "live"
            /\ IF now - conns[id].connectionStartTime
                    < IDE_CONNECTION_HEALTHY_THRESHOLD_MS
               THEN consecutiveUnhealthyConnections'
                      = consecutiveUnhealthyConnections + 1
               ELSE consecutiveUnhealthyConnections' = 0]_vars

\* A connection was created while the streak stood at two or more.
C18_Witness ==
  /\ HasOp(effects, "factory")
  /\ ~HasOp(effects, "listener")
  /\ consecutiveUnhealthyConnections >= 2

\* C19: dispose() tears down the live connection at whatever point it is
\* called, also from inside the callback that is being handed a new
\* connection: a disposed Watcher has no live connection, and a connection
\* that ends after dispose() causes no callback, no cycle and no request.
C19_DisposeTearsDown ==
  /\ isDisposed => LiveConns = {}
  /\ (/\ isDisposed
      /\ effects # <<>>
      /\ effects[1].op = "ended"
      /\ ~Has(effects, "call", "dispose")) =>
       /\ ~HasOp(effects, "callback")
       /\ ~HasOp(effects, "cycle")
       /\ ~HasOp(effects, "request")

\* C20: one acquisition cycle issues at most
\* floor(IDE_CONNECTION_MAX_WAIT_MS / IDE_CONNECTION_MIN_INTERVAL_MS) + 2
\* requests to the process factory.
C20_RequestBound ==
  \A i \in 1..Len(calls) :
    calls[i].requests
      <= IDE_CONNECTION_MAX_WAIT_MS \div IDE_CONNECTION_MIN_INTERVAL_MS + 2
C20_Witness ==
  \E i \in 1..Len(calls) :
    /\ calls[i].pc = "awaitProc"
    /\ calls[i].requests
         = IDE_CONNECTION_MAX_WAIT_MS \div IDE_CONNECTION_MIN_INTERVAL_MS + 2

====
